---------------------------- MODULE Spec2Model ----------------------------
(***************************************************************************)
(* Model of the drone control client (crate drctr): the heartbeat codec    *)
(* create_heartbeat and the command arbitration / transport loop           *)
(* run_network_loop of src/main.rs.                                        *)
(*                                                                         *)
(* Time is counted in units of 100 ms, so HEARTBEAT_INTERVAL is one unit.  *)
(* Every read of Instant::now() may see the clock later than the previous  *)
(* read (the thread was descheduled, the code took time); the total of     *)
(* such lag is bounded by MaxDrift.                                        *)
(***************************************************************************)
EXTENDS Integers, Sequences, FiniteSets, TLC

(***************************************************************************)
(* Bounds of the model                                                     *)
(***************************************************************************)
\* number of clock units a run of the arbitration specification covers
MaxTime == 2
\* number of clock units a run of the end-to-end scenario covers
MaxTimeE2E == 22
\* total lag (in units) the clock reads of one run may accumulate
MaxDrift == 1
\* number of idle ticks the loop has run when the arbitration specification starts
\* (no more than AUX_PERIOD, so that no auxiliary packet has been due)
IdleTicks == 9
\* number of requests the producers send in one run
MaxReq == 2
\* priorities of the requests are 0..MaxPrio
MaxPrio == 1
\* durations of the requests are 0..MaxDur units
MaxDur == 2
\* number of clock units a run of the whole process covers
MaxTimeProc == 11
\* number of key presses run_video_receiver sees in a run of the whole process
MaxKeys == 1

(***************************************************************************)
(* Program constants                                                       *)
(***************************************************************************)
HEARTBEAT_INTERVAL == 1
MOVEMENT_COMMAND_DUR == 20
\* Duration::from_secs(1), the period of the auxiliary keepalive
AUX_PERIOD == 10
\* config::LOCAL_VIDEO_PORT
LOCAL_VIDEO_PORT == 8768
CTRL_LAUNCH == 1
CTRL_LAND == 2
CTRL_AUX == 3
CTRL_PANIC == 4

\* u8
Byte == 0..255

(***************************************************************************)
(* Heartbeat codec                                                         *)
(***************************************************************************)
\* the ^ operator on u8, bit by bit
RECURSIVE BitXor(_, _)
BitXor(a, b) ==
    IF a = 0 THEN b
    ELSE IF b = 0 THEN a
    ELSE (((a % 2) + (b % 2)) % 2) + (2 * BitXor(a \div 2, b \div 2))

\* a faulty verif_bit: the last control byte is left out of the checksum
verif_bit_skips_mode(ctrl_bits) ==
    BitXor(BitXor(BitXor(ctrl_bits[0], ctrl_bits[1]), ctrl_bits[2]), ctrl_bits[3])

verif_bit(ctrl_bits) ==
    BitXor(BitXor(BitXor(BitXor(ctrl_bits[0], ctrl_bits[1]), ctrl_bits[2]),
                  ctrl_bits[3]), ctrl_bits[4])

\* [u8; 9], indexed from 0 as in the source
create_heartbeat(ctrl_bits) ==
    [i \in 0..8 |->
        CASE i = 0 -> 3
          [] i = 1 -> 102
          [] i = 2 -> ctrl_bits[0]
          [] i = 3 -> ctrl_bits[1]
          [] i = 4 -> ctrl_bits[2]
          [] i = 5 -> ctrl_bits[3]
          [] i = 6 -> ctrl_bits[4]
          [] i = 7 -> verif_bit(ctrl_bits)
          [] i = 8 -> 153]

DEFAULT_CTRL_BITS == [i \in 0..4 |-> IF i = 4 THEN 0 ELSE 128]

\* main: let standby_payload = create_heartbeat(DEFAULT_CTRL_BITS)
standby_payload == create_heartbeat(DEFAULT_CTRL_BITS)

\* &[0x01, 0x01]
AuxPacket == [i \in 0..1 |-> 1]

(***************************************************************************)
(* State                                                                   *)
(***************************************************************************)
VARIABLES
    \* run_network_loop
    pc,                \* position of the loop thread in run_network_loop
    current_command,   \* Option<ActiveCommand>: <<>> is None, <<c>> is Some(c)
    small_hb_time,     \* Instant of the last auxiliary send (or of loop start)
    \* shared with the other threads
    running,           \* Arc<AtomicBool>
    chan,              \* mpsc::channel(): the requests sent and not yet received
    \* environment
    now,               \* the monotonic clock Instant::now() reads
    drift,             \* lag accumulated so far
    horizon,           \* last clock value of this run
    nsent,             \* number of requests sent so far
    \* history, for stating the properties
    nrecv,             \* number of requests try_recv has returned
    received,          \* the requests try_recv returned that had not expired by the
                       \* last expiry check, oldest first, with the arbiter's verdict
    installed,         \* the request installed last: <<>>, or <<[id, start, end]>>
    checkTime,         \* clock value the expiry check of this iteration read
    wire,              \* datagrams sent by the current iteration, in order
    trace,             \* steps the current iteration has finished, in order
    auxLog,            \* clock values at which auxiliary packets were sent
    \* codec harness
    ctrl_in,           \* a ControlBits argument
    packet_out,        \* <<>>, or <<create_heartbeat(ctrl_in)>>
    \* the process
    mainPc,            \* position of the main thread in main
    videoPc,           \* position of the main thread in video::run_video_receiver
    \* handshake::perform
    hsPc,              \* "idle", "write", "read", "ok" (returned Ok), "err", "panic"
    hsStep,            \* the request perform is at, 1..4
    conn,              \* the writes and reads done on the TcpStream, in order
    local_udp_port,    \* the argument of perform
    shape,             \* what the peer builds its SETUP response from
    setup_response,    \* the text read after SETUP
    server_port,       \* Option<u16>: the result of get_server_port
    \* the media path of video::run_video_receiver
    decodePc,          \* decode_thread: "off", "open", "packets", "done", "err"
    media,             \* the video packets that have reached the process, in order
    frames,            \* sync_channel::<DecodedFrame>(1): the frames not yet drawn
    canvas,            \* the frame the canvas presents: <<>>, or <<frame>>
    forwarded          \* the datagrams sent to VIDEO_FWD_ADDR, in order

vars == <<pc, current_command, small_hb_time, running, chan, now, drift, horizon,
          nsent, nrecv, received, installed, checkTime, wire, trace, auxLog, ctrl_in,
          packet_out, mainPc, videoPc, hsPc, hsStep, conn, local_udp_port, shape,
          setup_response, server_port, decodePc, media, frames, canvas, forwarded>>

loopVars == <<pc, current_command, small_hb_time, running, chan, now, drift, horizon,
              nsent, nrecv, received, installed, checkTime, wire, trace, auxLog>>

codecVars == <<ctrl_in, packet_out>>

procVars == <<mainPc, videoPc>>

hsVars == <<hsPc, hsStep, conn, local_udp_port, shape, setup_response, server_port>>

mediaVars == <<decodePc, media, frames, canvas, forwarded>>

\* what run_network_loop and the producers of requests leave alone
otherVars == <<codecVars, procVars, hsVars, mediaVars>>

None == <<>>
Some(x) == <<x>>
IsSome(o) == o # <<>>
Unwrap(o) == o[1]

Last(s) == s[Len(s)]

\* the lags a clock read may add: within the drift budget and the horizon
Lags == {d \in 0..1 : drift + d <= MaxDrift /\ now + d <= horizon}
LagsAfter(d1) == {d \in 0..1 : drift + d1 + d <= MaxDrift /\ now + d1 + d <= horizon}

(***************************************************************************)
(* Requests                                                                *)
(***************************************************************************)
\* the control vectors of the Space and L keys
LaunchBits == [DEFAULT_CTRL_BITS EXCEPT ![4] = CTRL_LAUNCH]
LandBits == [DEFAULT_CTRL_BITS EXCEPT ![4] = CTRL_LAND]

\* struct Command; id is the position of the request in the order sent (history)
Command(id, payload, duration, priority) ==
    [id |-> id, payload |-> payload, duration |-> duration, priority |-> priority]

\* the packet of the id-th request: the keys pressed alternate between Space and L
PayloadOf(id) ==
    IF id % 2 = 1 THEN create_heartbeat(LaunchBits) ELSE create_heartbeat(LandBits)

(***************************************************************************)
(* Command arbiter: the decisions of run_network_loop                      *)
(***************************************************************************)
\* a faulty should_override: a tie keeps the active command
should_override_strict(new_cmd, cur) ==
    IF IsSome(cur) THEN new_cmd.priority > Unwrap(cur).priority ELSE TRUE

\* a faulty should_override: every request overrides
should_override_always(new_cmd, cur) == TRUE

should_override(new_cmd, cur) ==
    IF IsSome(cur) THEN new_cmd.priority >= Unwrap(cur).priority ELSE TRUE

\* struct ActiveCommand, built at time t; id is history
ActiveCommand(new_cmd, t) ==
    [payload |-> new_cmd.payload, end_time |-> t + new_cmd.duration,
     priority |-> new_cmd.priority, id |-> new_cmd.id]

\* a faulty is_expired: no command ever expires
is_expired_never(cur, t) == FALSE

\* a faulty is_expired: a command is kept through the instant of its expiry
is_expired_late(cur, t) == IsSome(cur) /\ t > Unwrap(cur).end_time

is_expired(cur, t) == IsSome(cur) /\ t >= Unwrap(cur).end_time

\* a faulty heartbeat_datagram: the standby packet is sent while a command is active
heartbeat_datagram_standby(cur) == [data |-> standby_payload, src |-> 0]

\* the datagram of the heartbeat send; src names the request it comes from (history)
heartbeat_datagram(cur) ==
    IF IsSome(cur) THEN [data |-> Unwrap(cur).payload, src |-> Unwrap(cur).id]
    ELSE [data |-> standby_payload, src |-> 0]

\* a faulty aux_due: the keepalive is sent on every tick
aux_due_always(t, last) == TRUE

aux_due(t, last) == t - last >= AUX_PERIOD

\* a faulty try_recv: the newest pending request is taken and the older ones dropped
try_recv_latest(ch) == [got |-> Last(ch), rest |-> <<>>]

\* rx.try_recv() on a channel that holds a request: the oldest one, the rest stay queued
try_recv(ch) == [got |-> Head(ch), rest |-> Tail(ch)]

\* a faulty LoopOrder: the heartbeat is sent before the expiry check
LoopOrder_send_first == <<"check", "poll", "send", "expiry", "aux", "flush", "sleep">>

\* the statements of the loop body, in program order
LoopOrder == <<"check", "poll", "expiry", "send", "aux", "flush", "sleep">>

\* the statement after statement s
After(s) ==
    LET i == CHOOSE k \in 1..Len(LoopOrder) : LoopOrder[k] = s
    IN  IF i = Len(LoopOrder) THEN LoopOrder[1] ELSE LoopOrder[i + 1]

(***************************************************************************)
(* History of the requests received                                        *)
(***************************************************************************)
\* the record of request new_cmd, received and arbitrated at time t
Entry(new_cmd, t, ok) ==
    [id |-> new_cmd.id, payload |-> new_cmd.payload, priority |-> new_cmd.priority,
     end |-> t + new_cmd.duration, accepted |-> ok, preempted |-> FALSE]

\* log, with every request marked that new_cmd, of equal or higher priority,
\* follows before its own expiry
Preempt(log, new_cmd, t) ==
    [i \in 1..Len(log) |->
        IF new_cmd.priority >= log[i].priority /\ t < log[i].end
        THEN [log[i] EXCEPT !.preempted = TRUE]
        ELSE log[i]]

(***************************************************************************)
(* run_network_loop, one action per statement of the loop body             *)
(***************************************************************************)
\* a faulty CheckRunning: the loop does not look at the flag
CheckRunning_ignores_flag ==
    /\ pc = "check"
    /\ pc' = After("check")
    /\ trace' = <<"check">>
    /\ wire' = <<>>
    /\ UNCHANGED <<current_command, small_hb_time, running, chan, now, drift,
                   horizon, nsent, nrecv, received, installed, checkTime, auxLog, otherVars>>

\* while running.load(Ordering::SeqCst)
CheckRunning ==
    /\ pc = "check"
    /\ IF running
       THEN /\ pc' = After("check")
            /\ trace' = <<"check">>
            /\ wire' = <<>>
       ELSE /\ pc' = "done"
            /\ UNCHANGED <<trace, wire>>
    /\ UNCHANGED <<current_command, small_hb_time, running, chan, now, drift,
                   horizon, nsent, nrecv, received, installed, checkTime, auxLog, otherVars>>

\* if let Ok(new_cmd) = rx.try_recv() { ... }: nothing pending
PollEmpty ==
    /\ pc = "poll"
    /\ chan = <<>>
    /\ pc' = After("poll")
    /\ trace' = Append(trace, "poll")
    /\ UNCHANGED <<current_command, small_hb_time, running, chan, now, drift,
                   horizon, nsent, nrecv, received, installed, checkTime, wire, auxLog, otherVars>>

\* if let Ok(new_cmd) = rx.try_recv() { ... }: one request is taken and arbitrated
PollRecv ==
    /\ pc = "poll"
    /\ chan # <<>>
    /\ \E d \in Lags :
        LET r == try_recv(chan)
            new_cmd == r.got
            ok == should_override(new_cmd, current_command)
            t == now + d
        IN  /\ chan' = r.rest
            /\ now' = t
            /\ drift' = drift + d
            /\ current_command' =
                  IF ok THEN Some(ActiveCommand(new_cmd, t)) ELSE current_command
            /\ nrecv' = nrecv + 1
            /\ received' = Append(Preempt(received, new_cmd, t), Entry(new_cmd, t, ok))
            /\ installed' =
                  IF ok THEN <<[id |-> new_cmd.id, start |-> t,
                                end |-> t + new_cmd.duration]>>
                  ELSE installed
    /\ pc' = After("poll")
    /\ trace' = Append(trace, "poll")
    /\ UNCHANGED <<small_hb_time, running, horizon, nsent, checkTime, wire,
                   auxLog, otherVars>>

\* if let Some(active_cmd) = &current_command { if Instant::now() >= end_time { None } }
Expiry ==
    /\ pc = "expiry"
    /\ \E d \in Lags :
        LET t == now + d
        IN  /\ now' = t
            /\ drift' = drift + d
            /\ checkTime' = t
            /\ current_command' =
                  IF is_expired(current_command, t) THEN None ELSE current_command
            /\ received' = SelectSeq(received, LAMBDA e : e.end > t)
    /\ pc' = After("expiry")
    /\ trace' = Append(trace, "expiry")
    /\ UNCHANGED <<small_hb_time, running, chan, horizon, nsent, nrecv, installed,
                   wire, auxLog, otherVars>>

\* socket.send_to(&active_cmd.payload | &standby_payload, DEST_ADDR)? succeeds
SendHeartbeat ==
    /\ pc = "send"
    /\ wire' = Append(wire, heartbeat_datagram(current_command))
    /\ pc' = After("send")
    /\ trace' = Append(trace, "send")
    /\ UNCHANGED <<current_command, small_hb_time, running, chan, now, drift,
                   horizon, nsent, nrecv, received, installed, checkTime, auxLog, otherVars>>

\* a faulty SendHeartbeatFail: the error is dropped and the iteration goes on
SendHeartbeatFail_ignored ==
    /\ pc = "send"
    /\ pc' = After("send")
    /\ trace' = Append(trace, "send")
    /\ UNCHANGED <<current_command, small_hb_time, running, chan, now, drift,
                   horizon, nsent, nrecv, received, installed, checkTime, wire, auxLog,
                   otherVars>>

\* socket.send_to(...)? fails: the loop returns the error
SendHeartbeatFail ==
    /\ pc = "send"
    /\ pc' = "err"
    /\ UNCHANGED <<current_command, small_hb_time, running, chan, now, drift,
                   horizon, nsent, nrecv, received, installed, checkTime, wire, trace, auxLog,
                   otherVars>>

\* if now.duration_since(small_hb_time) >= 1 s: not yet
AuxSkip ==
    /\ pc = "aux"
    /\ \E d \in Lags :
        /\ ~aux_due(now + d, small_hb_time)
        /\ now' = now + d
        /\ drift' = drift + d
    /\ pc' = After("aux")
    /\ trace' = Append(trace, "aux")
    /\ UNCHANGED <<current_command, small_hb_time, running, chan, horizon, nsent,
                   nrecv, received, installed, checkTime, wire, auxLog, otherVars>>

\* ... due: socket.send_to(&[0x01, 0x01], DEST_ADDR)? succeeds; small_hb_time = now()
AuxSend ==
    /\ pc = "aux"
    /\ \E d1 \in Lags : \E d2 \in LagsAfter(d1) :
        /\ aux_due(now + d1, small_hb_time)
        /\ wire' = Append(wire, [data |-> AuxPacket, src |-> 0])
        /\ auxLog' = Append(auxLog, now + d1)
        /\ small_hb_time' = now + d1 + d2
        /\ now' = now + d1 + d2
        /\ drift' = drift + d1 + d2
    /\ pc' = After("aux")
    /\ trace' = Append(trace, "aux")
    /\ UNCHANGED <<current_command, running, chan, horizon, nsent, nrecv,
                   received, installed, checkTime, otherVars>>

\* ... due: socket.send_to(&[0x01, 0x01], DEST_ADDR)? fails: the loop returns the error
AuxSendFail ==
    /\ pc = "aux"
    /\ \E d \in Lags :
        /\ aux_due(now + d, small_hb_time)
        /\ now' = now + d
        /\ drift' = drift + d
    /\ pc' = "err"
    /\ UNCHANGED <<current_command, small_hb_time, running, chan, horizon, nsent,
                   nrecv, received, installed, checkTime, wire, trace, auxLog, otherVars>>

\* std::io::stdout().flush()? succeeds
Flush ==
    /\ pc = "flush"
    /\ pc' = After("flush")
    /\ trace' = Append(trace, "flush")
    /\ UNCHANGED <<current_command, small_hb_time, running, chan, now, drift,
                   horizon, nsent, nrecv, received, installed, checkTime, wire, auxLog, otherVars>>

\* std::io::stdout().flush()? fails: the loop returns the error
FlushFail ==
    /\ pc = "flush"
    /\ pc' = "err"
    /\ UNCHANGED <<current_command, small_hb_time, running, chan, now, drift,
                   horizon, nsent, nrecv, received, installed, checkTime, wire, trace, auxLog,
                   otherVars>>

\* thread::sleep(HEARTBEAT_INTERVAL): at least the interval. A run covers the clock
\* up to horizon, and past it only the last sleep of a loop whose flag is down (the
\* check that follows ends the loop, so the clock stays bounded).
Sleep ==
    /\ pc = "sleep"
    /\ now + HEARTBEAT_INTERVAL <= horizon \/ ~running
    /\ \E d \in {e \in 0..1 : \/ e = 0
                               \/ /\ drift + e <= MaxDrift
                                  /\ now + HEARTBEAT_INTERVAL + e <= horizon} :
        /\ now' = now + HEARTBEAT_INTERVAL + d
        /\ drift' = drift + d
    /\ pc' = After("sleep")
    /\ trace' = Append(trace, "sleep")
    /\ UNCHANGED <<current_command, small_hb_time, running, chan, horizon, nsent,
                   nrecv, received, installed, checkTime, wire, auxLog, otherVars>>

(***************************************************************************)
(* The other threads                                                       *)
(***************************************************************************)
\* tx.send(Command { payload, duration, priority }) by an input translator;
\* once the loop has returned the receiver is dropped and send only returns Err.
\* The translators of this crate send priority 0 and MOVEMENT_COMMAND_DUR; the
\* loop takes any Command, so the requests range over priorities and durations.
SendCommand ==
    /\ nsent < MaxReq
    /\ pc \notin {"done", "err"}
    /\ \E dur \in 0..MaxDur, prio \in 0..MaxPrio :
        chan' = Append(chan, Command(nsent + 1, PayloadOf(nsent + 1), dur, prio))
    /\ nsent' = nsent + 1
    /\ UNCHANGED <<pc, current_command, small_hb_time, running, now, drift, horizon,
                   nrecv, received, installed, checkTime, wire, trace, auxLog, otherVars>>

\* the Ctrl+C handler, or Event::Quit: running.store(false, Ordering::SeqCst)
Shutdown ==
    /\ running
    /\ running' = FALSE
    /\ UNCHANGED <<pc, current_command, small_hb_time, chan, now, drift, horizon,
                   nsent, nrecv, received, installed, checkTime, wire, trace, auxLog, otherVars>>

(***************************************************************************)
(* handshake.rs: text, as sequences of characters                          *)
(***************************************************************************)
\* the characters '\r', '\n' and '\t'
CR == "CR"
LF == "LF"
TAB == "TAB"

\* char::is_whitespace, over the characters used here
White == {" ", TAB, CR, LF}

Digit == {"0", "1", "2", "3", "4", "5", "6", "7", "8", "9"}

DigitVal(c) ==
    CASE c = "0" -> 0 [] c = "1" -> 1 [] c = "2" -> 2 [] c = "3" -> 3 [] c = "4" -> 4
      [] c = "5" -> 5 [] c = "6" -> 6 [] c = "7" -> 7 [] c = "8" -> 8 [] c = "9" -> 9

\* str::starts_with
starts_with(s, p) == Len(p) <= Len(s) /\ SubSeq(s, 1, Len(p)) = p

\* str::split(char): the pieces between the occurrences of c, empty pieces kept
RECURSIVE split(_, _)
split(s, c) ==
    IF \A i \in 1..Len(s) : s[i] # c THEN <<s>>
    ELSE LET k == CHOOSE i \in 1..Len(s) : s[i] = c /\ \A j \in 1..(i - 1) : s[j] # c
         IN  <<SubSeq(s, 1, k - 1)>> \o split(SubSeq(s, k + 1, Len(s)), c)

\* str::lines: the pieces ended by '\n', without the '\n' and a '\r' before it, and
\* the rest after the last '\n' if it is not empty
lines(s) ==
    LET parts == split(s, LF)
        n == Len(parts)
        strip(l) == IF l # <<>> /\ l[Len(l)] = CR THEN SubSeq(l, 1, Len(l) - 1) ELSE l
    IN  [i \in 1..(IF parts[n] = <<>> THEN n - 1 ELSE n) |->
            IF i < n THEN strip(parts[i]) ELSE parts[i]]

\* Iterator::find: the first element of seq that satisfies the predicate, hit[i]
\* telling whether seq[i] does
find(seq, hit) ==
    IF \A i \in 1..Len(seq) : ~hit[i] THEN None
    ELSE Some(seq[CHOOSE i \in 1..Len(seq) : hit[i] /\ \A j \in 1..(i - 1) : ~hit[j]])

\* Iterator::nth, counting from 0
nth(seq, n) == IF n + 1 <= Len(seq) THEN Some(seq[n + 1]) ELSE None

RECURSIVE trim_start(_)
trim_start(s) == IF s # <<>> /\ Head(s) \in White THEN trim_start(Tail(s)) ELSE s

RECURSIVE trim_end(_)
trim_end(s) ==
    IF s # <<>> /\ s[Len(s)] \in White THEN trim_end(SubSeq(s, 1, Len(s) - 1)) ELSE s

\* str::trim
trim(s) == trim_end(trim_start(s))

\* str::split_whitespace: the maximal pieces without whitespace
RECURSIVE split_whitespace(_)
split_whitespace(s) ==
    LET t == trim_start(s)
    IN  IF t = <<>> THEN <<>>
        ELSE LET k == IF \A i \in 1..Len(t) : t[i] \notin White THEN Len(t) + 1
                      ELSE CHOOSE i \in 1..Len(t) :
                              t[i] \in White /\ \A j \in 1..(i - 1) : t[j] \notin White
             IN  <<SubSeq(t, 1, k - 1)>> \o split_whitespace(SubSeq(t, k, Len(t)))

\* the number a string of digits denotes
RECURSIVE DecimalValue(_)
DecimalValue(s) ==
    IF s = <<>> THEN 0
    ELSE 10 * DecimalValue(SubSeq(s, 1, Len(s) - 1)) + DigitVal(s[Len(s)])

\* a faulty parse_u16: the value is cut to 16 bits instead of refused
parse_u16_truncating(s) ==
    LET body == IF s # <<>> /\ Head(s) = "+" THEN Tail(s) ELSE s
    IN  IF body = <<>> \/ \E i \in 1..Len(body) : body[i] \notin Digit THEN None
        ELSE Some(DecimalValue(body) % 65536)

\* str::parse::<u16>().ok(): an optional '+', then one or more digits, at most 65535
parse_u16(s) ==
    LET body == IF s # <<>> /\ Head(s) = "+" THEN Tail(s) ELSE s
    IN  IF body = <<>> \/ \E i \in 1..Len(body) : body[i] \notin Digit THEN None
        ELSE IF DecimalValue(body) > 65535 THEN None
        ELSE Some(DecimalValue(body))

\* a faulty range_first: the last port of the range is taken
range_first_takes_last(v) == LET ps == split(v, "-") IN ps[Len(ps)]

\* .split('-').next()?: the text before the first '-' (next never fails on split)
range_first(v) == split(v, "-")[1]

TransportPrefix == <<"T", "r", "a", "n", "s", "p", "o", "r", "t", ":">>
ServerPortPrefix == <<"s", "e", "r", "v", "e", "r", "_", "p", "o", "r", "t", "=">>
SessionPrefix == <<"S", "e", "s", "s", "i", "o", "n", ":">>

\* fn get_server_port(response: &str) -> Option<u16>
get_server_port(response) ==
    LET ls == lines(response)
        transport_line == find(ls, [i \in 1..Len(ls) |-> starts_with(ls[i], TransportPrefix)])
    IN  IF transport_line = None THEN None
        ELSE LET parts == split(Unwrap(transport_line), ";")
                 part == find(parts, [i \in 1..Len(parts) |->
                                         starts_with(trim(parts[i]), ServerPortPrefix)])
             IN  IF part = None THEN None
                 ELSE LET value == nth(split(Unwrap(part), "="), 1)
                      IN  IF value = None THEN None
                          ELSE parse_u16(range_first(Unwrap(value)))

\* a faulty session_token: the whole Session line is echoed
session_token_whole_line(response) ==
    LET ls == lines(response)
        l == find(ls, [i \in 1..Len(ls) |-> starts_with(ls[i], SessionPrefix)])
    IN  IF l = None THEN <<>> ELSE Unwrap(l)

\* the argument of the Session header of the PLAY request:
\* setup_response.lines().find(|l| l.starts_with("Session:")).unwrap_or("")
\*     .split_whitespace().nth(1).unwrap_or("")
session_token(response) ==
    LET ls == lines(response)
        l == find(ls, [i \in 1..Len(ls) |-> starts_with(ls[i], SessionPrefix)])
        token == nth(split_whitespace(IF l = None THEN <<>> ELSE Unwrap(l)), 1)
    IN  IF token = None THEN <<>> ELSE Unwrap(token)

(***************************************************************************)
(* handshake::perform                                                      *)
(***************************************************************************)
\* a faulty HsOrder: SETUP is sent before DESCRIBE
HsOrder_setup_early == <<"OPTIONS", "SETUP", "DESCRIBE", "PLAY">>

\* the requests, in the order of the statements of perform
HsOrder == <<"OPTIONS", "DESCRIBE", "SETUP", "PLAY">>

\* format!("OPTIONS rtsp://{}/webcam RTSP/1.0\r\nCSeq: 1\r\n...")
options_req ==
    [method |-> "OPTIONS", uri |-> "/webcam", cseq |-> 1, client_port |-> <<>>,
     session |-> None]

\* format!("DESCRIBE rtsp://{}/webcam RTSP/1.0\r\n...CSeq: 2\r\n...")
describe_req ==
    [method |-> "DESCRIBE", uri |-> "/webcam", cseq |-> 2, client_port |-> <<>>,
     session |-> None]

\* format!("SETUP rtsp://{}/webcam/track0 RTSP/1.0\r\nTransport: RTP/AVP/UDP;unicast;
\* client_port={}-{}\r\nCSeq: 3\r\n...", local_udp_port, local_udp_port + 1)
setup_req(port, next_port) ==
    [method |-> "SETUP", uri |-> "/webcam/track0", cseq |-> 3,
     client_port |-> <<port, next_port>>, session |-> None]

\* a faulty play_req: the sequence number of SETUP is used again
play_req_reuses_cseq(response) ==
    [method |-> "PLAY", uri |-> "/webcam", cseq |-> 3, client_port |-> <<>>,
     session |-> Some(session_token(response))]

\* format!("PLAY rtsp://{}/webcam RTSP/1.0\r\nRange: npt=0.000-\r\nCSeq: 4\r\n...
\* Session: {}\r\n\r\n", <the session token of setup_response>)
play_req(response) ==
    [method |-> "PLAY", uri |-> "/webcam", cseq |-> 4, client_port |-> <<>>,
     session |-> Some(session_token(response))]

\* local_udp_port + 1 on u16: the sum; at 65535 a panic (None) in a build with
\* overflow checks, and 0 in a build without
next_port_outcomes(port) == IF port < 65535 THEN {Some(port + 1)} ELSE {None, Some(0)}

\* the request of method m
RequestOf(m, next_port) ==
    CASE m = "OPTIONS" -> options_req
      [] m = "DESCRIBE" -> describe_req
      [] m = "SETUP" -> setup_req(local_udp_port, next_port)
      [] m = "PLAY" -> play_req(setup_response)

\* stream.write_all(req.as_bytes())? succeeds (for SETUP: in a build where
\* local_udp_port + 1 has a value)
HsWrite ==
    /\ hsPc = "write"
    /\ \E next_port \in next_port_outcomes(local_udp_port) :
        /\ next_port # None
        /\ conn' = Append(conn, [op |-> "write",
                                 req |-> RequestOf(HsOrder[hsStep], Unwrap(next_port))])
    /\ hsPc' = "read"
    /\ UNCHANGED <<hsStep, local_udp_port, shape, setup_response, server_port,
                   loopVars, codecVars, procVars, mediaVars>>

\* local_udp_port + 1 overflows in a build with overflow checks: perform panics
\* while it formats the SETUP request
HsSetupPanic ==
    /\ hsPc = "write"
    /\ HsOrder[hsStep] = "SETUP"
    /\ None \in next_port_outcomes(local_udp_port)
    /\ hsPc' = "panic"
    /\ UNCHANGED <<hsStep, conn, local_udp_port, shape, setup_response, server_port,
                   loopVars, codecVars, procVars, mediaVars>>

\* stream.write_all(req.as_bytes())? returns the error
HsWriteFail ==
    /\ hsPc = "write"
    /\ hsPc' = "err"
    /\ UNCHANGED <<hsStep, conn, local_udp_port, shape, setup_response, server_port,
                   loopVars, codecVars, procVars, mediaVars>>

\* stream.read(&mut buf)? succeeds after OPTIONS, DESCRIBE or PLAY; the text read
\* is not looked at; after PLAY perform returns Ok(server_port)
HsRead ==
    /\ hsPc = "read"
    /\ HsOrder[hsStep] # "SETUP"
    /\ conn' = Append(conn, [op |-> "read"])
    /\ IF hsStep = Len(HsOrder)
       THEN hsPc' = "ok" /\ hsStep' = hsStep
       ELSE hsPc' = "write" /\ hsStep' = hsStep + 1
    /\ UNCHANGED <<local_udp_port, shape, setup_response, server_port,
                   loopVars, codecVars, procVars, mediaVars>>

\* the decimal digits of n
DigitChar(d) == CHOOSE c \in Digit : DigitVal(c) = d

RECURSIVE Decimal(_)
Decimal(n) ==
    IF n < 10 THEN <<DigitChar(n)>> ELSE Decimal(n \div 10) \o <<DigitChar(n % 10)>>

CRLF == <<CR, LF>>

\* the Transport lines a peer may answer SETUP with, for a first port n
TransportWithPort == {"range", "single", "client_first", "spaced"}
TransportWithoutPort ==
    {"absent", "no_field", "not_number", "too_big", "empty", "lower_case"}

TransportLine(kind, n) ==
    CASE kind = "range" ->
            <<"T", "r", "a", "n", "s", "p", "o", "r", "t", ":", " ", "R", "T", "P", "/", "A", "V", "P", "/", "U", "D", "P", ";", "u", "n", "i", "c", "a", "s", "t", ";", "s", "e", "r", "v", "e", "r", "_", "p", "o", "r", "t", "=">> \o Decimal(n) \o <<"-">>
                \o Decimal(n + 1) \o CRLF
      [] kind = "single" ->
            <<"T", "r", "a", "n", "s", "p", "o", "r", "t", ":", " ", "R", "T", "P", "/", "A", "V", "P", "/", "U", "D", "P", ";", "u", "n", "i", "c", "a", "s", "t", ";", "s", "e", "r", "v", "e", "r", "_", "p", "o", "r", "t", "=">> \o Decimal(n) \o CRLF
      [] kind = "client_first" ->
            <<"T", "r", "a", "n", "s", "p", "o", "r", "t", ":", " ", "R", "T", "P", "/", "A", "V", "P", ";", "u", "n", "i", "c", "a", "s", "t", ";", "c", "l", "i", "e", "n", "t", "_", "p", "o", "r", "t", "=", "8", "7", "6", "8", "-", "8", "7", "6", "9", ";", "s", "e", "r", "v", "e", "r", "_", "p", "o", "r", "t", "=">> \o Decimal(n)
                \o <<"-">> \o Decimal(n + 1) \o <<";", "m", "o", "d", "e", "=", "p", "l", "a", "y">> \o CRLF
      [] kind = "spaced" ->
            <<"T", "r", "a", "n", "s", "p", "o", "r", "t", ":", " ", "R", "T", "P", "/", "A", "V", "P", "/", "U", "D", "P", ";", " ", "u", "n", "i", "c", "a", "s", "t", ";", " ", "s", "e", "r", "v", "e", "r", "_", "p", "o", "r", "t", "=">> \o Decimal(n) \o CRLF
      [] kind = "absent" -> <<>>
      [] kind = "no_field" -> <<"T", "r", "a", "n", "s", "p", "o", "r", "t", ":", " ", "R", "T", "P", "/", "A", "V", "P", "/", "U", "D", "P", ";", "u", "n", "i", "c", "a", "s", "t">> \o CRLF
      [] kind = "not_number" ->
            <<"T", "r", "a", "n", "s", "p", "o", "r", "t", ":", " ", "R", "T", "P", "/", "A", "V", "P", "/", "U", "D", "P", ";", "u", "n", "i", "c", "a", "s", "t", ";", "s", "e", "r", "v", "e", "r", "_", "p", "o", "r", "t", "=", "p">> \o Decimal(n) \o CRLF
      [] kind = "too_big" ->
            <<"T", "r", "a", "n", "s", "p", "o", "r", "t", ":", " ", "R", "T", "P", "/", "A", "V", "P", "/", "U", "D", "P", ";", "u", "n", "i", "c", "a", "s", "t", ";", "s", "e", "r", "v", "e", "r", "_", "p", "o", "r", "t", "=">> \o Decimal(n + 65536) \o CRLF
      [] kind = "empty" -> <<"T", "r", "a", "n", "s", "p", "o", "r", "t", ":", " ", "R", "T", "P", "/", "A", "V", "P", "/", "U", "D", "P", ";", "u", "n", "i", "c", "a", "s", "t", ";", "s", "e", "r", "v", "e", "r", "_", "p", "o", "r", "t", "=">> \o CRLF
      [] kind = "lower_case" ->
            <<"t", "r", "a", "n", "s", "p", "o", "r", "t", ":", " ", "R", "T", "P", "/", "A", "V", "P", "/", "U", "D", "P", ";", "u", "n", "i", "c", "a", "s", "t", ";", "s", "e", "r", "v", "e", "r", "_", "p", "o", "r", "t", "=">> \o Decimal(n) \o CRLF

\* the Session lines a peer may answer SETUP with
SessionKinds == {"none", "plain", "timeout", "no_space", "tab", "blank", "twice"}

SessionLine(kind) ==
    CASE kind = "none" -> <<>>
      [] kind = "plain" -> <<"S", "e", "s", "s", "i", "o", "n", ":", " ", "1", "A", "2", "B">> \o CRLF
      [] kind = "timeout" -> <<"S", "e", "s", "s", "i", "o", "n", ":", " ", "1", "A", "2", "B", ";", "t", "i", "m", "e", "o", "u", "t", "=", "6", "0">> \o CRLF
      [] kind = "no_space" -> <<"S", "e", "s", "s", "i", "o", "n", ":", "1", "A", "2", "B">> \o CRLF
      [] kind = "tab" -> <<"S", "e", "s", "s", "i", "o", "n", ":">> \o <<TAB>> \o <<"1", "A", "2", "B", " ", "x">> \o CRLF
      [] kind = "blank" -> <<"S", "e", "s", "s", "i", "o", "n", ":", " ">> \o CRLF
      [] kind = "twice" -> <<"S", "e", "s", "s", "i", "o", "n", ":", " ", "1", "A", "2", "B">> \o CRLF \o <<"S", "e", "s", "s", "i", "o", "n", ":", " ", "9", "Z">> \o CRLF

\* the text of a SETUP response
Response(sh) ==
    <<"R", "T", "S", "P", "/", "1", ".", "0", " ", "2", "0", "0", " ", "O", "K">> \o CRLF \o <<"C", "S", "e", "q", ":", " ", "3">> \o CRLF
        \o TransportLine(sh.transport, sh.port) \o SessionLine(sh.session) \o CRLF

\* let len = stream.read(&mut buf)?; let setup_response = ...; let server_port =
\* get_server_port(&setup_response).ok_or("Could not parse ...")?
HsReadSetup ==
    /\ hsPc = "read"
    /\ HsOrder[hsStep] = "SETUP"
    /\ conn' = Append(conn, [op |-> "read"])
    /\ setup_response' = Response(shape)
    /\ server_port' = get_server_port(setup_response')
    /\ IF server_port' = None
       THEN hsPc' = "err" /\ hsStep' = hsStep
       ELSE hsPc' = "write" /\ hsStep' = hsStep + 1
    /\ UNCHANGED <<local_udp_port, shape, loopVars, codecVars, procVars, mediaVars>>

\* stream.read(&mut buf)? fails (the 3 s read timeout, a reset): perform returns Err
HsReadFail ==
    /\ hsPc = "read"
    /\ hsPc' = "err"
    /\ UNCHANGED <<hsStep, conn, local_udp_port, shape, setup_response, server_port,
                   loopVars, codecVars, procVars, mediaVars>>

(***************************************************************************)
(* main and video::run_video_receiver: the threads of the process          *)
(***************************************************************************)
\* the process has ended: main has returned (or the main thread has panicked), which
\* ends every other thread with it
Exited == mainPc = "exited"

\* the requests and the state of the transport loop, for the actions of main
loopData == <<current_command, chan, now, drift, horizon, nsent, nrecv, received,
              installed, checkTime, wire, trace, auxLog>>

\* let running = Arc::new(AtomicBool::new(true)); ctrlc::set_handler(...)? succeeds
MainSetHandler ==
    /\ mainPc = "set_handler"
    /\ mainPc' = "bind"
    /\ UNCHANGED <<pc, small_hb_time, running, loopData, videoPc, codecVars, hsVars, mediaVars>>

\* UdpSocket::bind(config::SOURCE_ADDR)? succeeds
MainBind ==
    /\ mainPc = "bind"
    /\ mainPc' = "connect"
    /\ UNCHANGED <<pc, small_hb_time, running, loopData, videoPc, codecVars, hsVars, mediaVars>>

\* TcpStream::connect_timeout(...)? and set_read_timeout(...)? succeed; the call of
\* handshake::perform that follows is commented out in main, so nothing is negotiated
MainConnect ==
    /\ mainPc = "connect"
    /\ mainPc' = "spawn"
    /\ UNCHANGED <<pc, small_hb_time, running, loopData, videoPc, codecVars, hsVars, mediaVars>>

\* one of the ? of main before the spawn returns the error: main returns Err
MainSetupFail ==
    /\ mainPc \in {"set_handler", "bind", "connect"}
    /\ mainPc' = "exited"
    /\ UNCHANGED <<pc, small_hb_time, running, loopData, videoPc, codecVars, hsVars, mediaVars>>

\* std::thread::spawn(move || { ... run_network_loop(socket, rx, standby_payload,
\* running) ... }); main goes on to call video::run_video_receiver (written without
\* arguments in main; its definition takes the sender of requests and the flag)
MainSpawn ==
    /\ mainPc = "spawn"
    /\ pc = "unspawned"
    /\ pc' = "check"
    /\ small_hb_time' = now
    /\ mainPc' = "video"
    /\ videoPc' = "init"
    /\ UNCHANGED <<running, loopData, codecVars, hsVars, mediaVars>>

\* run_video_receiver up to its main loop: ffmpeg::init, the decoder thread, SDL2,
\* the window and the canvas
VideoInit ==
    /\ mainPc = "video"
    /\ videoPc = "init"
    /\ videoPc' = "check"
    /\ UNCHANGED <<pc, small_hb_time, running, loopData, mainPc, codecVars, hsVars, mediaVars>>

\* ... .context(...)? returns the error
VideoInitFail ==
    /\ mainPc = "video"
    /\ videoPc = "init"
    /\ videoPc' = "err"
    /\ UNCHANGED <<pc, small_hb_time, running, loopData, mainPc, codecVars, hsVars, mediaVars>>

\* an .expect(...) of run_video_receiver panics on the main thread: the process ends
VideoPanic ==
    /\ mainPc = "video"
    /\ videoPc \in {"init", "body"}
    /\ mainPc' = "exited"
    /\ UNCHANGED <<pc, small_hb_time, running, loopData, videoPc, codecVars, hsVars, mediaVars>>

\* a faulty VideoCheck: the loop of run_video_receiver does not look at the flag
VideoCheck_ignores_flag ==
    /\ mainPc = "video"
    /\ videoPc = "check"
    /\ videoPc' = "body"
    /\ UNCHANGED <<pc, small_hb_time, running, loopData, mainPc, codecVars, hsVars, mediaVars>>

\* while running.load(Ordering::SeqCst)
VideoCheck ==
    /\ mainPc = "video"
    /\ videoPc = "check"
    /\ videoPc' = IF running THEN "body" ELSE "done"
    /\ UNCHANGED <<pc, small_hb_time, running, loopData, mainPc, codecVars, hsVars, mediaVars>>

\* Event::KeyDown of a key that changes the control vector, inside for ev in
\* event_pump.poll_iter(): let _ = tx_cmd.send(Command { packet,
\* MOVEMENT_COMMAND_DUR, priority: 0 }); once the transport loop has returned the
\* receiver is dropped and the send does nothing
VideoKeyDown ==
    /\ mainPc = "video"
    /\ videoPc = "body"
    /\ nsent < MaxKeys
    /\ pc \notin {"done", "err"}
    /\ chan' = Append(chan, Command(nsent + 1, PayloadOf(nsent + 1),
                                    MOVEMENT_COMMAND_DUR, 0))
    /\ nsent' = nsent + 1
    /\ UNCHANGED <<pc, current_command, small_hb_time, running, now, drift, horizon,
                   nrecv, received, installed, checkTime, wire, trace, auxLog,
                   procVars, codecVars, hsVars, mediaVars>>

\* Event::Quit inside for ev in event_pump.poll_iter():
\* running.store(false, Ordering::SeqCst)
VideoQuit ==
    /\ mainPc = "video"
    /\ videoPc = "body"
    /\ running' = FALSE
    /\ UNCHANGED <<pc, small_hb_time, loopData, procVars, codecVars, hsVars, mediaVars>>

\* the rest of the loop body: a frame is drawn, or TryRecvError::Empty and
\* thread::sleep(5 ms); back to the loop condition
VideoFrame ==
    /\ mainPc = "video"
    /\ videoPc = "body"
    /\ videoPc' = "check"
    /\ UNCHANGED <<pc, small_hb_time, running, loopData, mainPc, codecVars, hsVars, mediaVars>>

\* Err(TryRecvError::Disconnected) => break: the decoder thread has ended
VideoDisconnected ==
    /\ mainPc = "video"
    /\ videoPc = "body"
    /\ videoPc' = "done"
    /\ UNCHANGED <<pc, small_hb_time, running, loopData, mainPc, codecVars, hsVars, mediaVars>>

\* if let Err(e) = video::run_video_receiver() { eprintln!(...) }
\* println!("Shutting down.")
MainAfterVideo ==
    /\ mainPc = "video"
    /\ videoPc \in {"done", "err"}
    /\ mainPc' = "shutdown"
    /\ UNCHANGED <<pc, small_hb_time, running, loopData, videoPc, codecVars, hsVars, mediaVars>>

\* Ok(()): main returns and the process ends
MainReturn ==
    /\ mainPc = "shutdown"
    /\ mainPc' = "exited"
    /\ UNCHANGED <<pc, small_hb_time, running, loopData, videoPc, codecVars, hsVars, mediaVars>>

\* the handler installed by ctrlc::set_handler: r.store(false, Ordering::SeqCst)
CtrlCHandler ==
    /\ mainPc \notin {"set_handler", "exited"}
    /\ running' = FALSE
    /\ UNCHANGED <<pc, small_hb_time, loopData, procVars, codecVars, hsVars, mediaVars>>

MainStep ==
    \/ MainSetHandler
    \/ MainBind
    \/ MainConnect
    \/ MainSetupFail
    \/ MainSpawn
    \/ MainAfterVideo
    \/ MainReturn

VideoStep ==
    \/ VideoInit
    \/ VideoInitFail
    \/ VideoCheck
    \/ VideoFrame
    \/ VideoDisconnected

\* what the user and the devices may do to run_video_receiver, or not
VideoEvent ==
    \/ VideoKeyDown
    \/ VideoQuit
    \/ VideoPanic

(***************************************************************************)
(* Specifications                                                          *)
(***************************************************************************)
\* the state run_network_loop starts in at clock 0; with t0 > 0, the state at the
\* top of the loop after t0 ticks without lag in which no request was pending
LoopInit(t0, h, ch) ==
    /\ pc = "check"
    /\ current_command = None
    /\ small_hb_time = 0
    /\ running = TRUE
    /\ chan = ch
    /\ now = t0
    /\ drift = 0
    /\ horizon = t0 + h
    /\ nsent = Len(ch)
    /\ nrecv = 0
    /\ received = <<>>
    /\ installed = <<>>
    /\ checkTime = IF t0 = 0 THEN 0 ELSE t0 - HEARTBEAT_INTERVAL
    /\ wire = IF t0 = 0 THEN <<>> ELSE <<heartbeat_datagram(None)>>
    /\ trace = IF t0 = 0 THEN <<>> ELSE LoopOrder
    /\ auxLog = <<>>

CodecIdle ==
    /\ ctrl_in = DEFAULT_CTRL_BITS
    /\ packet_out = <<>>

\* handshake::perform has not been called
HsIdle ==
    /\ hsPc = "idle"
    /\ hsStep = 1
    /\ conn = <<>>
    /\ local_udp_port = LOCAL_VIDEO_PORT
    /\ shape = [transport |-> "absent", port |-> 0, session |-> "none"]
    /\ setup_response = <<>>
    /\ server_port = None

\* the media path is left out of account: no packet has arrived
MediaIdle ==
    /\ decodePc = "off"
    /\ media = <<>>
    /\ frames = <<>>
    /\ canvas = <<>>
    /\ forwarded = <<>>

\* the main thread has spawned the transport loop and is inside the body of the
\* loop of video::run_video_receiver
ProcIdle ==
    /\ mainPc = "video"
    /\ videoPc = "body"
    /\ HsIdle
    /\ MediaIdle

LoopStep ==
    \/ CheckRunning
    \/ PollEmpty
    \/ PollRecv
    \/ Expiry
    \/ SendHeartbeat
    \/ SendHeartbeatFail
    \/ AuxSkip
    \/ AuxSend
    \/ AuxSendFail
    \/ Flush
    \/ FlushFail
    \/ Sleep

\* a step of the thread main spawned, which lives as long as the process
LoopThreadStep == ~Exited /\ LoopStep

\* the transport loop fed by producers of arbitrary requests, from the top of the
\* iteration that follows IdleTicks idle ticks (the auxiliary packet falls due soon)
Init == LoopInit(IdleTicks, MaxTime, <<>>) /\ CodecIdle /\ ProcIdle

Next ==
    \/ LoopStep
    \/ SendCommand
    \/ Shutdown

Spec == Init /\ [][Next]_vars

\* the end-to-end scenario: one priority-5 launch command of 2000 ms is pending
\* when the loop starts, and nothing else is ever sent
InitE2E ==
    /\ LoopInit(0, MaxTimeE2E,
                <<Command(1, create_heartbeat(LaunchBits), MOVEMENT_COMMAND_DUR, 5)>>)
    /\ CodecIdle
    /\ ProcIdle

NextE2E == LoopStep

SpecE2E == InitE2E /\ [][NextE2E]_vars

\* the codec applied to control vectors over sample bytes
ByteSamples == {0, 1, 29, 128, 157, 255}

InitCodec ==
    /\ LoopInit(0, 0, <<>>)
    /\ ctrl_in \in [0..4 -> ByteSamples]
    /\ packet_out = <<>>
    /\ ProcIdle

Encode ==
    /\ packet_out = <<>>
    /\ packet_out' = <<create_heartbeat(ctrl_in)>>
    /\ UNCHANGED <<ctrl_in, loopVars, procVars, hsVars, mediaVars>>

NextCodec == Encode

SpecCodec == InitCodec /\ [][NextCodec]_vars

\* handshake::perform called on a connected stream, for the local ports and the
\* SETUP responses of the samples; the transport loop is not running
PortSamples == {0, 6000, 53796, 65535}
LocalPortSamples == {LOCAL_VIDEO_PORT, 65535}

InitHandshake ==
    /\ LoopInit(0, 0, <<>>)
    /\ CodecIdle
    /\ mainPc = "connect"
    /\ videoPc = "off"
    /\ hsPc = "write"
    /\ hsStep = 1
    /\ conn = <<>>
    /\ local_udp_port \in LocalPortSamples
    /\ shape \in [transport : TransportWithPort \cup TransportWithoutPort,
                   port : PortSamples, session : SessionKinds]
    /\ setup_response = <<>>
    /\ server_port = None
    /\ MediaIdle

NextHandshake ==
    \/ HsWrite
    \/ HsSetupPanic
    \/ HsWriteFail
    \/ HsRead
    \/ HsReadSetup
    \/ HsReadFail

SpecHandshake == InitHandshake /\ [][NextHandshake]_vars

\* the process from the start of main: nothing is spawned, the clock is at 0
InitProc ==
    /\ pc = "unspawned"
    /\ current_command = None
    /\ small_hb_time = 0
    /\ running = TRUE
    /\ chan = <<>>
    /\ now = 0
    /\ drift = 0
    /\ horizon = MaxTimeProc
    /\ nsent = 0
    /\ nrecv = 0
    /\ received = <<>>
    /\ installed = <<>>
    /\ checkTime = 0
    /\ wire = <<>>
    /\ trace = <<>>
    /\ auxLog = <<>>
    /\ mainPc = "set_handler"
    /\ videoPc = "off"
    /\ CodecIdle
    /\ HsIdle
    /\ MediaIdle

NextProc ==
    \/ MainStep
    \/ VideoStep
    \/ VideoEvent
    \/ LoopThreadStep
    \/ CtrlCHandler

\* every thread that can take a step of its code eventually takes one; the events
\* (keys, quit, Ctrl+C, panics) may never come
FairProc ==
    /\ WF_vars(MainStep)
    /\ WF_vars(VideoStep)
    /\ WF_vars(LoopThreadStep)

SpecProc == InitProc /\ [][NextProc]_vars /\ FairProc

\* run_network_loop alone in the end-to-end scenario, with the flag cleared at any
\* moment and a thread that keeps being scheduled
NextStop ==
    \/ LoopStep
    \/ Shutdown

SpecStop == InitE2E /\ [][NextStop]_vars /\ WF_vars(LoopStep)

(***************************************************************************)
(* Properties                                                              *)
(***************************************************************************)
Range(f) == {f[x] : x \in DOMAIN f}

\* bit k of byte x
Bit(x, k) == (x \div (2 ^ k)) % 2

\* positions in w of the 9-byte datagrams
Heartbeats(w) == {i \in 1..Len(w) : DOMAIN w[i].data = 0..8}

\* the current iteration has sent its heartbeat
HeartbeatSent == Heartbeats(wire) # {}

\* the heartbeat the current iteration has sent
TheHeartbeat == wire[CHOOSE i \in Heartbeats(wire) : TRUE]

\* C1: for every control vector, create_heartbeat returns a 9-byte packet with
\* byte 0 = 0x03, byte 1 = 0x66, bytes 2..6 the control bytes in order, byte 7 the
\* bitwise XOR of the five control bytes (bit k of byte 7 is the parity of the
\* bits k of the control bytes) and byte 8 = 0x99.
C1_HeartbeatFraming ==
    packet_out # <<>> =>
        LET p == packet_out[1]
        IN  /\ DOMAIN p = 0..8
            /\ p[0] = 3
            /\ p[1] = 102
            /\ \A i \in 0..4 : p[i + 2] = ctrl_in[i]
            /\ \A k \in 0..7 :
                 Bit(p[7], k) = (Bit(ctrl_in[0], k) + Bit(ctrl_in[1], k) + Bit(ctrl_in[2], k)
                                 + Bit(ctrl_in[3], k) + Bit(ctrl_in[4], k)) % 2
            /\ p[7] \in Byte
            /\ p[8] = 153

\* a vector whose bytes differ in every bit has been encoded, with a non-zero checksum
C1_Witness ==
    /\ packet_out # <<>>
    /\ ctrl_in = [i \in 0..4 |-> CASE i = 0 -> 29 [] i = 1 -> 157 [] i = 2 -> 128
                                   [] i = 3 -> 255 [] i = 4 -> 1]
    /\ packet_out[1][7] = 254

\* C2: when a request is received while a command is active, it replaces the
\* active command (payload, priority, expiry = now + duration) if and only if its
\* priority is >= the active one's; otherwise the active command is unchanged.
\* A tie goes to the new request.
C2_PreemptIffNotLower ==
    [][(pc = "poll" /\ pc' # "poll" /\ chan # <<>> /\ IsSome(current_command)) =>
          LET new == Head(chan)
              active == Unwrap(current_command)
          IN  IF new.priority >= active.priority
              THEN /\ IsSome(current_command')
                   /\ Unwrap(current_command').payload = new.payload
                   /\ Unwrap(current_command').priority = new.priority
                   /\ Unwrap(current_command').end_time = now' + new.duration
                   /\ Unwrap(current_command').id = new.id
              ELSE current_command' = current_command]_vars

\* a request has just replaced an active command of the same priority
C2_Witness ==
    /\ pc = "expiry"
    /\ Len(received) >= 2
    /\ LET new == received[Len(received)]
           old == received[Len(received) - 1]
       IN  /\ old.accepted /\ old.preempted /\ new.accepted
           /\ old.priority = new.priority
           /\ IsSome(current_command) /\ Unwrap(current_command).id = new.id

\* the expiry check of the current iteration has run
ExpiryChecked == \E i \in 1..Len(trace) : trace[i] = "expiry"

\* C3: a command installed at t with duration d is never cleared before t+d; the
\* first expiry check that reads a time >= t+d clears it; the heartbeat of an
\* iteration whose expiry check left no command is the standby packet; and a
\* command's payload is only sent by iterations whose expiry check read a time
\* before t+d.
C3_Expiry ==
    /\ [](ExpiryChecked /\ IsSome(current_command)
            => checkTime < Unwrap(current_command).end_time)
    /\ [](HeartbeatSent /\ current_command = None
            => TheHeartbeat.data = standby_payload /\ TheHeartbeat.src = 0)
    /\ [](HeartbeatSent /\ TheHeartbeat.src # 0
            => /\ IsSome(installed)
               /\ Unwrap(installed).id = TheHeartbeat.src
               /\ checkTime < Unwrap(installed).end)
    /\ [][IsSome(current_command) /\ current_command' = None
            => /\ pc = "expiry"
               /\ now' >= Unwrap(current_command).end_time
               /\ Unwrap(installed).end = Unwrap(current_command).end_time
               /\ Unwrap(installed).end >= Unwrap(installed).start]_vars

\* a command of non-zero duration has expired and this iteration sent the standby
\* packet instead
C3_Witness ==
    /\ HeartbeatSent
    /\ TheHeartbeat.data = standby_payload
    /\ current_command = None
    /\ IsSome(installed)
    /\ Unwrap(installed).end > Unwrap(installed).start
    /\ checkTime >= Unwrap(installed).end

\* the requests of log that are unexpired at time t and were not followed, before
\* their expiry, by a request of equal or higher priority; installedOnly leaves
\* out the requests the arbiter rejected
Candidates(log, t, installedOnly) ==
    {i \in 1..Len(log) : /\ log[i].end > t
                         /\ ~log[i].preempted
                         /\ (installedOnly => log[i].accepted)}

\* the payload arbitration is expected to yield: that of the candidate of highest
\* priority, the most recent one on a tie, and the standby packet without one
Arbitrated(log, t, installedOnly) ==
    LET c == Candidates(log, t, installedOnly)
    IN  IF c = {} THEN standby_payload
        ELSE log[CHOOSE i \in c :
                    \A j \in c : \/ log[j].priority < log[i].priority
                                 \/ (log[j].priority = log[i].priority /\ j <= i)].payload

\* C4 as stated: the payload transmitted is that of the highest-priority unexpired
\* command among all the requests received so far that were never preempted by an
\* equal-or-higher priority request before their expiry (most recent on a tie),
\* and the standby payload when there is none.
C4_AmongReceived ==
    HeartbeatSent => TheHeartbeat.data = Arbitrated(received, checkTime, FALSE)

\* C4 (amended): the payload transmitted by a tick is that of the highest-priority
\* command, unexpired at the tick's expiry check, among the requests installed so
\* far that were never preempted by an equal-or-higher priority request before
\* their expiry (most recent on a tie), and the standby payload when there is
\* none; a request rejected on receipt never counts.
C4_AmongInstalled ==
    HeartbeatSent => TheHeartbeat.data = Arbitrated(received, checkTime, TRUE)

\* the standby packet is sent while a rejected request is still unexpired
C4_Witness ==
    /\ HeartbeatSent
    /\ TheHeartbeat.data = standby_payload
    /\ \E i \in 1..Len(received) :
          ~received[i].accepted /\ ~received[i].preempted /\ received[i].end > checkTime

\* the heartbeat send of the current iteration has been attempted and succeeded
SendDone == \E i \in 1..Len(trace) : trace[i] = "send"

\* C5: an iteration sends exactly one 9-byte datagram, at its heartbeat send: the
\* payload of the active command if there is one after the poll and the expiry
\* check of that iteration, else the standby payload; nothing else of 9 bytes is
\* sent.
C5_OneHeartbeatPerTick ==
    /\ ~SendDone => Heartbeats(wire) = {}
    /\ SendDone =>
          /\ Cardinality(Heartbeats(wire)) = 1
          /\ TheHeartbeat.data =
                IF IsSome(current_command) THEN Unwrap(current_command).payload
                ELSE standby_payload
    /\ \A i \in 1..Len(wire) : i \notin Heartbeats(wire) => wire[i].data = AuxPacket

\* an iteration has completed in which the payload of an active command was sent
C5_Witness ==
    /\ pc = "check"
    /\ Len(trace) = 7
    /\ IsSome(current_command)
    /\ Cardinality(Heartbeats(wire)) = 1
    /\ TheHeartbeat.data = Unwrap(current_command).payload
    /\ TheHeartbeat.data # standby_payload

\* C6: in the end-to-end scenario (standby payload 03 66 80 80 80 80 00 00 99, one
\* priority-5 launch command of 2000 ms installed at t = 0, 100 ms tick), every
\* heartbeat of a tick whose time is in [0, 2000) is the launch packet and every
\* heartbeat of a tick at or after 2000 is the standby packet.
C6_EndToEnd ==
    /\ standby_payload = [i \in 0..8 |-> CASE i = 0 -> 3 [] i = 1 -> 102
                                           [] i \in 2..5 -> 128 [] i \in 6..7 -> 0
                                           [] i = 8 -> 153]
    /\ (HeartbeatSent /\ IsSome(installed) /\ Unwrap(installed).start = 0) =>
          TheHeartbeat.data =
             IF checkTime < 20 THEN create_heartbeat(LaunchBits) ELSE standby_payload

\* the launch command was installed at 0 and the tick at 2000 ms sent the standby packet
C6_Witness ==
    /\ HeartbeatSent
    /\ IsSome(installed) /\ Unwrap(installed).start = 0
    /\ checkTime = 20
    /\ TheHeartbeat.data = standby_payload

\* C7 as stated: a tick consumes at most one pending request, and when more than
\* one request is pending at its poll, the tick arbitrates the latest of them and
\* none of the older ones stays pending for a later tick.
C7_BacklogCollapsed ==
    [][(pc = "poll" /\ pc' # "poll" /\ Len(chan) > 1) =>
          /\ nrecv' <= nrecv + 1
          /\ received'[Len(received')].id = chan[Len(chan)].id
          /\ chan' = <<>>]_vars

\* C8: the requests are received one at a time in the order sent, none twice and
\* none skipped; a poll that finds a request pending receives exactly one; a
\* request is installed only by the poll that receives it, so one that was
\* rejected or superseded is never installed again; and the only command ever
\* transmitted is the one installed last.
C8_ConsumedOnceInOrder ==
    /\ [](/\ nrecv + Len(chan) = nsent
          /\ \A i \in 1..Len(chan) : chan[i].id = nrecv + i)
    /\ [](IsSome(current_command)
            => IsSome(installed) /\ Unwrap(installed).id = Unwrap(current_command).id)
    /\ [](HeartbeatSent /\ TheHeartbeat.src # 0
            => IsSome(installed) /\ TheHeartbeat.src = Unwrap(installed).id)
    /\ [][(pc = "poll" /\ pc' # "poll" /\ chan # <<>>)
            => /\ nrecv' = nrecv + 1
               /\ received'[Len(received')].id = nrecv'
               /\ chan' = Tail(chan)]_vars
    /\ [][nrecv' # nrecv => pc = "poll" /\ nrecv' = nrecv + 1]_vars
    /\ [][installed' # installed
            => /\ nrecv' = nrecv + 1
               /\ Unwrap(installed').id = nrecv'
               /\ received'[Len(received')].accepted]_vars

\* the second request was rejected and a later heartbeat still carries the first
C8_Witness ==
    /\ nrecv = 2
    /\ Len(received) = 2
    /\ ~received[2].accepted
    /\ chan = <<>>
    /\ HeartbeatSent
    /\ TheHeartbeat.src = 1
    /\ IsSome(current_command) /\ Unwrap(current_command).id = 1

\* s is an initial segment of t
IsPrefix(s, t) == Len(s) <= Len(t) /\ \A i \in 1..Len(s) : s[i] = t[i]

\* C9: in every iteration the steps run in the order RunningFlag check, poll,
\* expiry check, heartbeat send, auxiliary send, (flush,) sleep, each acting only
\* at its place, and an iteration starts only after the sleep of the one before.
C9_StepOrder ==
    /\ [](IsPrefix(trace, <<"check", "poll", "expiry", "send", "aux", "flush", "sleep">>))
    /\ [][trace' # trace =>
            \/ trace' = <<"check">> /\ (trace = <<>> \/ trace[Len(trace)] = "sleep")
            \/ trace' = Append(trace, trace'[Len(trace')]) /\ trace # <<>>]_vars
    /\ [][nrecv' # nrecv => trace = <<"check">>]_vars
    /\ [][(checkTime' # checkTime \/ (IsSome(current_command) /\ current_command' = None))
            => trace = <<"check", "poll">>]_vars
    /\ [][Heartbeats(wire') # Heartbeats(wire) /\ wire' # <<>>
            => trace = <<"check", "poll", "expiry">>]_vars
    /\ [][auxLog' # auxLog => trace = <<"check", "poll", "expiry", "send">>]_vars
    /\ [][(trace' # trace /\ trace' # <<>> /\ trace'[Len(trace')] = "sleep")
            => /\ trace = <<"check", "poll", "expiry", "send", "aux", "flush">>
               /\ now' >= now + HEARTBEAT_INTERVAL]_vars

\* an iteration that sent the heartbeat and the auxiliary packet has completed
C9_Witness ==
    /\ pc = "check"
    /\ trace = <<"check", "poll", "expiry", "send", "aux", "flush", "sleep">>
    /\ Len(wire) = 2
    /\ wire[2].data = AuxPacket

\* C10: the auxiliary packet 01 01 is sent by a tick exactly when at least 1 s has
\* passed since the timer was reset (at loop start, and after each auxiliary send),
\* so consecutive auxiliary sends are at least 1 s apart; with a 100 ms tick
\* started at 0 the k-th is sent by the tick at k s (later only by the lag
\* accumulated), in particular at 1000 ms and 2000 ms.
C10_AuxKeepalive ==
    /\ [][(pc = "aux" /\ pc' = "flush") =>
            IF auxLog' # auxLog
            THEN /\ auxLog' = Append(auxLog, auxLog'[Len(auxLog')])
                 /\ auxLog'[Len(auxLog')] - small_hb_time >= 10
                 /\ wire' = Append(wire, [data |-> AuxPacket, src |-> 0])
                 /\ small_hb_time' = now'
                 /\ small_hb_time' >= auxLog'[Len(auxLog')]
            ELSE /\ now' - small_hb_time < 10
                 /\ wire' = wire
                 /\ small_hb_time' = small_hb_time]_vars
    /\ [][pc # "aux" => auxLog' = auxLog /\ small_hb_time' = small_hb_time]_vars
    /\ [](\A k \in 1..Len(auxLog) :
             /\ auxLog[k] >= 10 * k
             /\ auxLog[k] <= 10 * k + drift
             /\ k > 1 => auxLog[k] - auxLog[k - 1] >= 10)
    /\ [](\A k \in 1..2 : (pc # "err" /\ now - drift > 10 * k) => Len(auxLog) >= k)
    /\ [](drift = 0 => IsPrefix(auxLog, <<10, 20>>))

\* the auxiliary packet has been sent twice, 1 s and 2 s after the start
C10_Witness ==
    /\ auxLog = <<10, 20>>
    /\ pc = "flush"
    /\ wire[Len(wire)].data = AuxPacket

\* C11: once the RunningFlag is false, run_network_loop starts no new iteration: the
\* check at the top of the loop ends it with Ok, without sending anything; the
\* iteration in progress only goes on from where it is; the loop returns Ok only
\* from that check, and an error only from a send or flush of the iteration in
\* progress; after returning it sends nothing; and a loop that keeps being
\* scheduled does return once the flag is false.
C11_StopsOnFlag ==
    /\ [][(~running /\ pc = "check" /\ pc' # pc) => pc' = "done"]_vars
    /\ [][(~running /\ trace' # trace) => trace' = Append(trace, trace'[Len(trace')])]_vars
    /\ [][(pc' = "done" /\ pc # "done")
            => pc = "check" /\ ~running /\ wire' = wire /\ auxLog' = auxLog]_vars
    /\ [][(pc' = "err" /\ pc # "err") => pc \in {"send", "aux", "flush"}]_vars
    /\ [][pc = "done" => pc' = "done" /\ wire' = wire /\ auxLog' = auxLog]_vars
    /\ (~running ~> pc \in {"done", "err"})

\* the flag fell during an iteration, which sent the payload of the active command,
\* ran to its end, and the loop then returned Ok
C11_Witness ==
    /\ pc = "done"
    /\ ~running
    /\ trace = LoopOrder
    /\ IsSome(current_command)
    /\ HeartbeatSent
    /\ TheHeartbeat.data = Unwrap(current_command).payload

\* C12: a send of run_network_loop that fails (the heartbeat step, or an auxiliary
\* step that is due, ends without a datagram on the wire) makes the loop return the
\* error at once, and after the error the loop takes no step: the send is not
\* retried and no datagram follows.
C12_SendErrorAborts ==
    /\ [][(pc = "send" /\ pc' # "send" /\ wire' = wire) => pc' = "err"]_vars
    /\ [][(pc = "aux" /\ pc' # "aux" /\ wire' = wire
              /\ now' - small_hb_time >= AUX_PERIOD) => pc' = "err"]_vars
    /\ [][pc' = "err" => wire' = wire /\ auxLog' = auxLog /\ trace' = trace]_vars
    /\ [][pc = "err" => pc' = "err" /\ current_command' = current_command
                                    /\ small_hb_time' = small_hb_time]_vars

\* the send of the payload of an active command has failed and the loop has returned
C12_Witness ==
    /\ pc = "err"
    /\ trace = <<"check", "poll", "expiry">>
    /\ IsSome(current_command)
    /\ wire = <<>>

\* C13 as stated: after run_network_loop has returned a send error, the process
\* shuts down: the RunningFlag is cleared or the process ends.
C13_ErrorStopsProcess == (pc = "err") ~> (~running \/ Exited)

\* C14: the RunningFlag starts true; no step of any thread takes it from false to
\* true, whatever the order of the stores of the Ctrl+C handler and of the quit
\* event; and once it is false every loop that polls it stops iterating: the loop
\* of run_video_receiver returns and run_network_loop returns (or the process ends
\* under it).
C14_RunningFlag ==
    /\ running = TRUE
    /\ [][~running => ~running']_vars
    /\ [][(~running /\ videoPc = "check" /\ videoPc' # videoPc) => videoPc' = "done"]_vars
    /\ (~running ~> (Exited \/ (videoPc \in {"done", "err"} /\ pc \in {"done", "err"})))
    /\ (~running ~> (Exited \/ videoPc \in {"done", "err"}))

\* the flag is false and both loops have seen it and returned, before main returns
C14_Witness ==
    /\ ~running
    /\ videoPc = "done"
    /\ pc = "done"
    /\ mainPc = "video"

\* the writes and reads of conn, each by the method written or "read"
ConnOps == [i \in 1..Len(conn) |-> IF conn[i].op = "write" THEN conn[i].req.method ELSE "read"]

\* the requests written on conn, in order
Requests == SelectSeq(conn, LAMBDA e : e.op = "write")

\* C15: the trace of perform on the connection is always a prefix of OPTIONS, read,
\* DESCRIBE, read, SETUP, read, PLAY, read, extended by one write or read at a
\* time; a write or read that fails (the step ends with nothing added to the
\* trace) ends perform with an error or a panic; once perform has ended nothing is
\* written or read; and perform returns Ok only after the read that follows PLAY.
C15_Sequential ==
    /\ [](IsPrefix(ConnOps, <<"OPTIONS", "read", "DESCRIBE", "read", "SETUP", "read",
                             "PLAY", "read">>))
    /\ [][conn' # conn => /\ conn' = Append(conn, conn'[Len(conn')])
                          /\ hsPc \in {"write", "read"}
                          /\ conn'[Len(conn')].op = hsPc]_vars
    /\ [][(hsPc \in {"write", "read"} /\ hsPc' # hsPc /\ conn' = conn)
            => hsPc' \in {"err", "panic"}]_vars
    /\ [][(hsPc \in {"ok", "err", "panic"}) => hsPc' = hsPc /\ conn' = conn]_vars
    /\ [](hsPc = "ok" => Len(conn) = 8)

\* the read that follows DESCRIBE has failed: SETUP and PLAY were never written
C15_Witness ==
    /\ hsPc = "err"
    /\ ConnOps = <<"OPTIONS", "read", "DESCRIBE">>

\* the SETUP response has been read and parsed
SetupRead == Len(conn) >= 6

\* C16: get_server_port gives 53796 for server_port=53796-53797 and 6000 for
\* server_port=6000; and for every SETUP response whose Transport line carries a
\* server_port field with first port n, the port perform keeps and returns is n.
C16_FirstServerPort ==
    /\ get_server_port(<<"R", "T", "S", "P", "/", "1", ".", "0", " ", "2", "0", "0", " ", "O", "K">> \o CRLF
          \o <<"T", "r", "a", "n", "s", "p", "o", "r", "t", ":", " ", "R", "T", "P", "/", "A", "V", "P", "/", "U", "D", "P", ";", "u", "n", "i", "c", "a", "s", "t", ";", "s", "e", "r", "v", "e", "r", "_", "p", "o", "r", "t", "=", "5", "3", "7", "9", "6", "-", "5", "3", "7", "9", "7">> \o CRLF \o CRLF)
         = Some(53796)
    /\ get_server_port(<<"T", "r", "a", "n", "s", "p", "o", "r", "t", ":", " ", "R", "T", "P", "/", "A", "V", "P", "/", "U", "D", "P", ";", "u", "n", "i", "c", "a", "s", "t", ";", "s", "e", "r", "v", "e", "r", "_", "p", "o", "r", "t", "=", "6", "0", "0", "0">> \o CRLF)
         = Some(6000)
    /\ (SetupRead /\ shape.transport \in TransportWithPort)
         => server_port = Some(shape.port)
    /\ server_port # None
         => shape.transport \in TransportWithPort /\ server_port = Some(shape.port)
    /\ hsPc = "ok" => server_port = Some(shape.port)

\* perform has returned the first port of a range, after a client_port range that
\* the line carries as well
C16_Witness ==
    /\ hsPc = "ok"
    /\ shape.transport = "client_first"
    /\ shape.port = 53796
    /\ server_port = Some(53796)

\* PLAY has been written
PlaySent == \E i \in 1..Len(conn) : conn[i].op = "write" /\ conn[i].req.method = "PLAY"

\* C17: when the SETUP response has no line that starts with Transport:, or that
\* line has no server_port= field, or the first port is not a decimal number of at
\* most 65535, perform ends with an error at the SETUP response, PLAY is never
\* written and perform never returns Ok.
C17_NoPortNoPlay ==
    shape.transport \in TransportWithoutPort =>
        /\ ~PlaySent
        /\ hsPc # "ok"
        /\ SetupRead => hsPc = "err" /\ server_port = None /\ Len(conn) = 6

\* a first port of 65536 + n was read and perform ended with the error
C17_Witness ==
    /\ hsPc = "err"
    /\ SetupRead
    /\ shape.transport = "too_big"
    /\ shape.port = 6000

\* the second whitespace-delimited token of the first Session line of the SETUP
\* responses of each kind, and the empty text when there is none
ExpectedToken(kind) ==
    CASE kind \in {"plain", "tab", "twice"} -> <<"1", "A", "2", "B">>
      [] kind = "timeout" -> <<"1", "A", "2", "B", ";", "t", "i", "m", "e", "o", "u", "t", "=", "6", "0">>
      [] kind \in {"none", "no_space", "blank"} -> <<>>

\* C18: the Session header of PLAY carries, unchanged, the second
\* whitespace-delimited token of the first line of the SETUP response that starts
\* with Session:, and the empty text when there is no such line or token; and
\* whatever the Session line, perform goes on to write PLAY once the port is
\* parsed (and ends before the read that follows only if that write fails).
C18_SessionEcho ==
    /\ \A i \in 1..Len(conn) :
          (conn[i].op = "write" /\ conn[i].req.method = "PLAY")
             => conn[i].req.session = Some(ExpectedToken(shape.session))
    /\ (Len(conn) = 6 /\ server_port # None) => hsStep = 4 /\ hsPc \in {"write", "err"}
    /\ (hsPc = "ok" \/ (hsPc = "read" /\ hsStep = 4)) => PlaySent

\* the SETUP response had no Session line, PLAY went out with an empty token and
\* perform returned Ok
C18_Witness ==
    /\ hsPc = "ok"
    /\ shape.session = "none"
    /\ conn[7].req.method = "PLAY"
    /\ conn[7].req.session = Some(<<>>)

\* C19: the i-th request perform writes carries CSeq i (OPTIONS 1, DESCRIBE 2,
\* SETUP 3, PLAY 4): the sequence numbers strictly increase and none is used twice.
C19_CSeq ==
    /\ \A i \in 1..Len(Requests) :
          /\ Requests[i].req.cseq = i
          /\ Requests[i].req.method = <<"OPTIONS", "DESCRIBE", "SETUP", "PLAY">>[i]
    /\ \A i, j \in 1..Len(Requests) : i < j => Requests[i].req.cseq < Requests[j].req.cseq

\* the four requests have been written, the last with CSeq 4
C19_Witness ==
    /\ Len(Requests) = 4
    /\ Requests[4].req.method = "PLAY"
    /\ Requests[4].req.cseq = 4
    /\ hsPc = "read"

\* C20 as stated: the transport loop is started only after session setup has
\* succeeded; when main fails before that, no heartbeat or auxiliary packet is ever
\* sent; and once the media receiver has failed no datagram is sent.
C20_FailClosed ==
    /\ [](pc # "unspawned" => hsPc = "ok")
    /\ []((Exited /\ videoPc = "off") => pc = "unspawned" /\ wire = <<>> /\ auxLog = <<>>)
    /\ [][(videoPc = "err" /\ wire' # wire) => wire' = <<>>]_vars

\* C22 as stated: whatever the local port p in 0..65535, the SETUP request carries
\* client_port=p-(p+1) with p + 1 computed without overflow, and perform does not
\* panic while it formats the request: for p = 65535 the request is written and
\* its second port is neither missing nor wrapped to 0.
C22_AdjacentPorts ==
    /\ hsPc # "panic"
    /\ \A i \in 1..Len(conn) :
          (conn[i].op = "write" /\ conn[i].req.method = "SETUP")
             => conn[i].req.client_port = <<local_udp_port, local_udp_port + 1>>

\* C23 as stated: whenever the poll discards a request because its priority is
\* lower than the active command's, the active command is still unexpired at that
\* moment: the time already reached when the poll starts is before its expiry
\* time. A command whose expiry time has passed and which the expiry check has not
\* yet cleared never causes a request to be rejected.
C23_RejectedOnlyByUnexpired ==
    [][(/\ pc = "poll" /\ pc' # "poll"
        /\ chan # <<>>
        /\ IsSome(current_command)
        /\ Head(chan).priority < Unwrap(current_command).priority)
         => now < Unwrap(current_command).end_time]_vars

\* the last command the poll installed had duration zero
ZeroInstalled == IsSome(installed) /\ Unwrap(installed).end = Unwrap(installed).start

\* C25: a request of duration zero that the poll accepts is installed with an
\* expiry time equal to the time of the poll, whether a command was active or not;
\* the expiry check of the same tick clears it, so that tick sends the standby
\* packet and no heartbeat ever carries the payload of a duration-zero request;
\* the command it replaced is gone as well and is never sent again.
C25_ZeroDuration ==
    /\ [][(/\ pc = "poll" /\ pc' # "poll" /\ chan # <<>>
           /\ Head(chan).duration = 0
           /\ should_override(Head(chan), current_command))
            => /\ current_command' = Some(ActiveCommand(Head(chan), now'))
               /\ Unwrap(current_command').end_time = now'
               /\ Unwrap(installed').id = Head(chan).id
               /\ Unwrap(installed').end = Unwrap(installed').start]_vars
    /\ []((ZeroInstalled /\ ExpiryChecked) => current_command = None)
    /\ []((ZeroInstalled /\ HeartbeatSent)
            => TheHeartbeat.data = standby_payload /\ TheHeartbeat.src = 0)
    /\ []((HeartbeatSent /\ TheHeartbeat.src # 0)
            => /\ IsSome(installed)
               /\ TheHeartbeat.src = Unwrap(installed).id
               /\ Unwrap(installed).end > Unwrap(installed).start)

\* a request of duration zero has replaced, in this tick, a command that had not
\* expired, and the tick has sent the standby packet
C25_Witness ==
    /\ ZeroInstalled
    /\ HeartbeatSent
    /\ TheHeartbeat.data = standby_payload
    /\ Unwrap(installed).start = checkTime
    /\ \E i \in 1..Len(received) :
          /\ received[i].accepted /\ received[i].preempted
          /\ received[i].end > checkTime

(***************************************************************************)
(* The input translators                                                   *)
(***************************************************************************)
\* the keys the translators tell apart; "Other" is any other key
Keys == {"Space", "L", "O", "P", "A", "Left", "D", "Right", "W", "Up", "S", "Down",
         "J", "K", "Q", "E", "Other"}

\* u8::saturating_add and u8::saturating_sub
saturating_add(x, y) == IF x + y > 255 THEN 255 ELSE x + y
saturating_sub(x, y) == IF x < y THEN 0 ELSE x - y

\* the closure of run_keyboard_listener for a KeyPress of key: ctrl_bits starts at
\* DEFAULT_CTRL_BITS on every event, so the += and -= of 0x1d act on 0x80 and do
\* not overflow; the arrow keys are not matched
run_keyboard_listener(key) ==
    LET d == DEFAULT_CTRL_BITS
        ctrl_bits ==
            CASE key = "Space" -> [d EXCEPT ![4] = CTRL_LAUNCH]
              [] key = "L" -> [d EXCEPT ![4] = CTRL_LAND]
              [] key = "O" -> [d EXCEPT ![4] = CTRL_AUX]
              [] key = "P" -> [d EXCEPT ![4] = CTRL_PANIC]
              [] key = "A" -> [d EXCEPT ![0] = d[0] - 29]
              [] key = "D" -> [d EXCEPT ![0] = d[0] + 29]
              [] key = "W" -> [d EXCEPT ![1] = d[1] + 29]
              [] key = "S" -> [d EXCEPT ![1] = d[1] - 29]
              [] key = "J" -> [d EXCEPT ![1] = d[1] + 29]
              [] key = "K" -> [d EXCEPT ![1] = d[1] - 29]
              [] key = "Q" -> [d EXCEPT ![3] = d[3] + 29]
              [] key = "E" -> [d EXCEPT ![3] = d[3] - 29]
              [] OTHER -> d
    IN  IF ctrl_bits # DEFAULT_CTRL_BITS
        THEN Some([payload |-> create_heartbeat(ctrl_bits),
                   duration |-> MOVEMENT_COMMAND_DUR, priority |-> 0])
        ELSE None

\* render.rs: the Command of a scancode, None for a key that is not a command key
scancode_to_command(sc) ==
    LET d == DEFAULT_CTRL_BITS
        ctrl_bits ==
            CASE sc = "Space" -> [d EXCEPT ![4] = CTRL_LAUNCH]
              [] sc = "L" -> [d EXCEPT ![4] = CTRL_LAND]
              [] sc = "O" -> [d EXCEPT ![4] = CTRL_AUX]
              [] sc = "P" -> [d EXCEPT ![4] = CTRL_PANIC]
              [] sc \in {"A", "Left"} -> [d EXCEPT ![0] = saturating_sub(d[0], 29)]
              [] sc \in {"D", "Right"} -> [d EXCEPT ![0] = saturating_add(d[0], 29)]
              [] sc \in {"W", "Up"} -> [d EXCEPT ![1] = saturating_add(d[1], 29)]
              [] sc \in {"S", "Down"} -> [d EXCEPT ![1] = saturating_sub(d[1], 29)]
              [] sc = "Q" -> [d EXCEPT ![3] = saturating_add(d[3], 29)]
              [] sc = "E" -> [d EXCEPT ![3] = saturating_sub(d[3], 29)]
              [] OTHER -> d
    IN  IF sc \in {"J", "K", "Other"} THEN None
        ELSE IF ctrl_bits # DEFAULT_CTRL_BITS
             THEN Some([payload |-> create_heartbeat(ctrl_bits),
                        duration |-> MOVEMENT_COMMAND_DUR, priority |-> 0])
             ELSE None

\* a faulty key_down: the Space key is sent with priority 1
key_down_space_high(sc) ==
    LET d == DEFAULT_CTRL_BITS
        ctrl_bits ==
            CASE sc = "Space" -> [d EXCEPT ![4] = CTRL_LAUNCH]
              [] sc = "L" -> [d EXCEPT ![4] = CTRL_LAND]
              [] sc = "O" -> [d EXCEPT ![4] = CTRL_AUX]
              [] sc = "P" -> [d EXCEPT ![4] = CTRL_PANIC]
              [] sc \in {"A", "Left"} -> [d EXCEPT ![0] = saturating_sub(d[0], 29)]
              [] sc \in {"D", "Right"} -> [d EXCEPT ![0] = saturating_add(d[0], 29)]
              [] sc \in {"W", "Up"} -> [d EXCEPT ![1] = saturating_add(d[1], 29)]
              [] sc \in {"S", "Down"} -> [d EXCEPT ![1] = saturating_sub(d[1], 29)]
              [] sc = "Q" -> [d EXCEPT ![3] = saturating_add(d[3], 29)]
              [] sc = "E" -> [d EXCEPT ![3] = saturating_sub(d[3], 29)]
              [] OTHER -> d
    IN  IF ctrl_bits # DEFAULT_CTRL_BITS
        THEN Some([payload |-> create_heartbeat(ctrl_bits),
                   duration |-> MOVEMENT_COMMAND_DUR,
                   priority |-> IF sc = "Space" THEN 1 ELSE 0])
        ELSE None

\* the Event::KeyDown arm of the SDL loop of run_video_receiver for scancode sc:
\* the Command it sends, None when it sends nothing
key_down(sc) ==
    LET d == DEFAULT_CTRL_BITS
        ctrl_bits ==
            CASE sc = "Space" -> [d EXCEPT ![4] = CTRL_LAUNCH]
              [] sc = "L" -> [d EXCEPT ![4] = CTRL_LAND]
              [] sc = "O" -> [d EXCEPT ![4] = CTRL_AUX]
              [] sc = "P" -> [d EXCEPT ![4] = CTRL_PANIC]
              [] sc \in {"A", "Left"} -> [d EXCEPT ![0] = saturating_sub(d[0], 29)]
              [] sc \in {"D", "Right"} -> [d EXCEPT ![0] = saturating_add(d[0], 29)]
              [] sc \in {"W", "Up"} -> [d EXCEPT ![1] = saturating_add(d[1], 29)]
              [] sc \in {"S", "Down"} -> [d EXCEPT ![1] = saturating_sub(d[1], 29)]
              [] sc = "Q" -> [d EXCEPT ![3] = saturating_add(d[3], 29)]
              [] sc = "E" -> [d EXCEPT ![3] = saturating_sub(d[3], 29)]
              [] OTHER -> d
    IN  IF ctrl_bits # DEFAULT_CTRL_BITS
        THEN Some([payload |-> create_heartbeat(ctrl_bits),
                   duration |-> MOVEMENT_COMMAND_DUR, priority |-> 0])
        ELSE None

\* the three translators
Translators == {"keyboard", "render", "video"}

\* what translator tr makes of key
Translate(tr, key) ==
    CASE tr = "keyboard" -> run_keyboard_listener(key)
      [] tr = "render" -> scancode_to_command(key)
      [] tr = "video" -> key_down(key)

\* number of key presses of a run
MaxPress == 2

\* the Commands the translators send, over all keys
Produced == {Translate(tr, key) : tr \in Translators, key \in Keys} \ {None}

\* a key is pressed and a translator sends the Command it makes of it, if any;
\* once the loop has returned the receiver is dropped and send only returns Err
KeyEvent ==
    /\ nsent < MaxPress
    /\ pc \notin {"done", "err"}
    /\ \E c \in Produced :
        chan' = Append(chan, Command(nsent + 1, Unwrap(c).payload,
                                     Unwrap(c).duration, Unwrap(c).priority))
    /\ nsent' = nsent + 1
    /\ UNCHANGED <<pc, current_command, small_hb_time, running, now, drift, horizon,
                   nrecv, received, installed, checkTime, wire, trace, auxLog, otherVars>>

\* the transport loop fed by the input translators, for as many ticks as keys are
\* pressed
InitKeys == LoopInit(IdleTicks, MaxPress - 1, <<>>) /\ CodecIdle /\ ProcIdle

NextKeys ==
    \/ LoopStep
    \/ KeyEvent

SpecKeys == InitKeys /\ [][NextKeys]_vars

MediaSamples == {<<0>>, <<128, 1>>, <<128, 1, 2>>}

\* number of packets of a run
MaxMedia == 2

\* decode_thread: input_with_dictionary(uri, opts)?, best(Type::Video) and the
\* decoder succeed
DecodeOpen ==
    /\ decodePc = "open"
    /\ decodePc' = "packets"
    /\ UNCHANGED <<media, frames, canvas, forwarded, loopVars, codecVars, procVars, hsVars>>

\* one of them fails: decode_thread returns the error and the thread ends
DecodeOpenFail ==
    /\ decodePc = "open"
    /\ decodePc' = "err"
    /\ UNCHANGED <<media, frames, canvas, forwarded, loopVars, codecVars, procVars, hsVars>>

\* for (stream, packet) in ictx.packets(): a packet of the video stream has
\* arrived; decoder.send_packet(&packet)? succeeds and the decoder yields a frame
\* or none; let _ = tx.try_send(frame) drops the frame when the channel is full.
\* (A packet of another stream is skipped.) Nothing is sent to any socket.
DecodePacket ==
    /\ decodePc = "packets"
    /\ Len(media) < MaxMedia
    /\ \E data \in MediaSamples, nframes \in 0..1 :
        /\ media' = Append(media, data)
        /\ frames' = IF nframes = 1 /\ frames = <<>>
                     THEN <<[of |-> Len(media) + 1]>>
                     ELSE frames
    /\ UNCHANGED <<decodePc, canvas, forwarded, loopVars, codecVars, procVars, hsVars>>

\* decoder.send_packet(&packet)? fails: decode_thread returns the error
DecodeFail ==
    /\ decodePc = "packets"
    /\ Len(media) < MaxMedia
    /\ \E data \in MediaSamples : media' = Append(media, data)
    /\ decodePc' = "err"
    /\ UNCHANGED <<frames, canvas, forwarded, loopVars, codecVars, procVars, hsVars>>

\* ictx.packets() ends: decode_thread returns Ok(())
DecodeEnd ==
    /\ decodePc = "packets"
    /\ decodePc' = "done"
    /\ UNCHANGED <<media, frames, canvas, forwarded, loopVars, codecVars, procVars, hsVars>>

\* match rx.try_recv() { Ok(frame) => ... }: the frame is taken from the channel
\* and drawn on the canvas
DrawFrame ==
    /\ mainPc = "video"
    /\ videoPc = "body"
    /\ frames # <<>>
    /\ frames' = Tail(frames)
    /\ canvas' = <<Head(frames)>>
    /\ UNCHANGED <<decodePc, media, forwarded, loopVars, codecVars, procVars, hsVars>>

\* the decode thread as run_video_receiver has spawned it, and the SDL loop
InitVideo ==
    /\ LoopInit(0, 0, <<>>)
    /\ CodecIdle
    /\ mainPc = "video"
    /\ videoPc = "body"
    /\ HsIdle
    /\ decodePc = "open"
    /\ media = <<>>
    /\ frames = <<>>
    /\ canvas = <<>>
    /\ forwarded = <<>>

NextVideo ==
    \/ DecodeOpen
    \/ DecodeOpenFail
    \/ DecodePacket
    \/ DecodeFail
    \/ DecodeEnd
    \/ DrawFrame

SpecVideo == InitVideo /\ [][NextVideo]_vars

\* C21 as stated: every datagram received from the media stream is forwarded,
\* byte for byte and in order, to the playback address: the datagrams sent there
\* are those received so far.
C21_RelayForwards ==
    /\ Len(forwarded) = Len(media)
    /\ \A i \in 1..Len(media) : forwarded[i] = media[i]

(***************************************************************************)
(* The loop after the last request                                         *)
(***************************************************************************)
\* the length of a run: the first tick, in which the requests are sent, and enough
\* to receive a backlog of MaxReq requests one per
\* tick, to let the longest command run out and to reach the expiry check after
\* it, whatever the lag
LiveSpan == HEARTBEAT_INTERVAL * (MaxReq + 2) + MaxDur + MaxDrift

\* a producer sends a request, before the clock has moved on by a tick
LiveSend ==
    /\ now < IdleTicks + HEARTBEAT_INTERVAL
    /\ SendCommand

\* a step of the loop in which no send fails
LiveLoopStep ==
    \/ CheckRunning
    \/ PollEmpty
    \/ PollRecv
    \/ Expiry
    \/ SendHeartbeat
    \/ AuxSkip
    \/ AuxSend
    \/ Flush
    \/ Sleep

InitLive == LoopInit(IdleTicks, LiveSpan, <<>>) /\ CodecIdle /\ ProcIdle

NextLive ==
    \/ LiveLoopStep
    \/ LiveSend

\* the loop keeps running: its thread is scheduled again and again, the flag stays
\* set and no send fails; the producers send at most MaxReq requests
SpecLive == InitLive /\ [][NextLive]_vars /\ WF_vars(LiveLoopStep)

\* no request is pending and no command is active
Quiet == chan = <<>> /\ current_command = None

\* C24: when finitely many requests are sent (at most MaxReq, each of a finite
\* duration, all sent during the first tick) and the loop keeps running
\* without send errors, the loop reaches a tick from which on no request is
\* pending and no command is active; from then on nothing but a new request can
\* end that, the loop keeps ticking, and every heartbeat it sends is the standby
\* packet.
C24_EventuallyStandby ==
    /\ <>[]Quiet
    /\ []<>(Quiet /\ HeartbeatSent /\ TheHeartbeat.data = standby_payload)
    /\ [][(Quiet /\ chan' = <<>>) => current_command' = None]_vars
    /\ [](Quiet /\ HeartbeatSent => TheHeartbeat.data = standby_payload)

\* MaxReq requests were sent, the last command installed ran its full duration and
\* the loop is sending the standby packet
C24_Witness ==
    /\ nsent = MaxReq
    /\ nrecv = MaxReq
    /\ Quiet
    /\ IsSome(installed)
    /\ Unwrap(installed).end = Unwrap(installed).start + MaxDur
    /\ checkTime > Unwrap(installed).end
    /\ HeartbeatSent
    /\ TheHeartbeat.data = standby_payload

=============================================================================
